---------------------------- MODULE Spec2Model ----------------------------
(***************************************************************************)
(* Model of the blog application of src/app.js: the post store (one JSON   *)
(* document, read and rewritten whole), post creation, the paginated       *)
(* listing, single-post navigation and search.                             *)
(*                                                                         *)
(* A request handler is an async function: it runs without interruption    *)
(* between two awaits, and other requests run while it awaits a file       *)
(* operation.  Each action below is one such uninterrupted stretch,        *)
(* together with the file operation that ends the await before it.         *)
(*                                                                         *)
(* Strings are sequences of characters.  The character "<x>" stands for a  *)
(* markup tag that is not on sanitize-html's allow-list.  A creation       *)
(* timestamp is the number of milliseconds new Date() reads from the wall  *)
(* clock; toISOString() followed by new Date(string) gives the same        *)
(* number back, so the model keeps the number.  The excerpt and the        *)
(* reading time of a post are stored and never read by any handler that    *)
(* is modelled here; the model leaves the two fields out.                  *)
(***************************************************************************)
EXTENDS Integers, Sequences, FiniteSets, TLC

VARIABLES
    file,     \* data/posts.json: [exists, posts]
    pc,       \* per client: where its current request stands
    kind,     \* per client: the route of its current request
    arg,      \* per client: req.body or req.query of its current request
    local,    \* per client: the handler's local array `posts`
    resp,     \* per client: the response of its last finished request
    started   \* number of POST /add-post requests received so far

vars == <<file, pc, kind, arg, local, resp, started>>

(***************************************************************************)
(* Bounds of the model.                                                    *)
(***************************************************************************)
MaxCreates == 3        \* POST /add-post requests in one behaviour of Spec
MaxClock == 1          \* wall-clock readings 1..MaxClock in Spec
MaxTime == 2           \* creation timestamps 1..MaxTime in SpecList, SpecSearch
MaxListPosts == 7      \* size of a stored collection in SpecList
MaxPageLen == 2        \* length of a page query string
MaxIdLen == 1          \* length of an id query string
MaxSearchPosts == 2    \* size of a stored collection in SpecSearch
MaxQueryLen == 2       \* length of a search term

Creators == {"c1", "c2"}
Readers == {"r1"}
Clients == Creators \cup Readers

(***************************************************************************)
(* Strings, request objects.                                               *)
(***************************************************************************)
StringsOver(chars, n) == UNION {[1..k -> chars] : k \in 0..n}

\* A request object (req.body, req.query): a function from the keys that
\* are present to their values.
Objects(keys, values) == UNION {[D -> values] : D \in SUBSET keys}

\* Mutant of Falsy: the check sees an absent property only, not an empty one.
FalsyAbsentOnly(o, k) == k \notin DOMAIN o

\* !o[k] of JavaScript, for a string-valued or absent property.
Falsy(o, k) == k \notin DOMAIN o \/ o[k] = <<>>

\* o[k] || '' of JavaScript.
OrEmpty(o, k) == IF Falsy(o, k) THEN <<>> ELSE o[k]


(***************************************************************************)
(* JavaScript and library functions the handlers call.                     *)
(***************************************************************************)
NaN == <<>>            \* a number is <<n>>, NaN is <<>>

DecimalDigits == <<"0", "1", "2", "3", "4", "5", "6", "7", "8", "9">>

IsDigit(ch) == \E i \in 1..Len(DecimalDigits) : DecimalDigits[i] = ch

DigitValue(ch) == (CHOOSE i \in 1..Len(DecimalDigits) : DecimalDigits[i] = ch) - 1

\* The longest prefix of s made of decimal digits.
RECURSIVE LeadingDigits(_)
LeadingDigits(s) ==
    IF s = <<>> \/ ~IsDigit(Head(s)) THEN <<>>
    ELSE <<Head(s)>> \o LeadingDigits(Tail(s))

\* The value of a string of decimal digits.
RECURSIVE DigitsValue(_)
DigitsValue(d) ==
    IF d = <<>> THEN 0
    ELSE 10 * DigitsValue(SubSeq(d, 1, Len(d) - 1)) + DigitValue(d[Len(d)])

\* parseInt(string): an optional sign, then the longest run of digits; NaN
\* when there is no digit.  Whatever follows the digits is ignored.
parseInt(s) ==
    LET signed == s # <<>> /\ Head(s) \in {"-", "+"}
        negative == signed /\ Head(s) = "-"
        rest == IF signed THEN Tail(s) ELSE s
        digits == LeadingDigits(rest)
    IN  IF digits = <<>> THEN NaN
        ELSE <<(IF negative THEN -1 ELSE 1) * DigitsValue(digits)>>

\* parseInt(o[k]); an absent property is undefined, which parses to NaN.
ParseIntOf(o, k) == IF k \in DOMAIN o THEN parseInt(o[k]) ELSE NaN

\* Array.prototype.slice(start, end): a negative index counts from the end.
slice(s, start, end) ==
    LET n == Len(s)
        from == IF start < 0 THEN (IF n + start < 0 THEN 0 ELSE n + start)
                ELSE (IF start > n THEN n ELSE start)
        to == IF end < 0 THEN (IF n + end < 0 THEN 0 ELSE n + end)
              ELSE (IF end > n THEN n ELSE end)
    IN  SubSeq(s, from + 1, to)

\* Math.ceil(a / b) for a >= 0, b > 0.
Ceil(a, b) == (a + b - 1) \div b

\* sanitizeHtml(text) with the default options: a tag that is not on the
\* allow-list is discarded, the text around it is kept.
IsDisallowedTag(ch) == ch = "<x>"

sanitizeHtml(s) ==
    LET Kept(ch) == ~IsDisallowedTag(ch) IN SelectSeq(s, Kept)

\* String.prototype.toLowerCase.
LowerChar(ch) ==
    CASE ch = "A" -> "a"
      [] ch = "B" -> "b"
      [] OTHER -> ch

toLowerCase(s) == [i \in 1..Len(s) |-> LowerChar(s[i])]

\* String.prototype.includes.
includes(s, q) ==
    \E i \in 0..(Len(s) - Len(q)) : SubSeq(s, i + 1, i + Len(q)) = q

\* Math.max(...posts.map(p => p.id)) for a non-empty array.
MaxId(posts) ==
    CHOOSE m \in {posts[i].id : i \in 1..Len(posts)} :
        \A i \in 1..Len(posts) : posts[i].id <= m

\* [...posts].sort((a, b) => new Date(b.createdAt) - new Date(a.createdAt)):
\* newest first; the sort is stable, so posts of equal timestamp keep their
\* array order.
InsertByDate(sorted, p) ==
    LET NotOlder(q) == q.createdAt >= p.createdAt
        Older(q) == q.createdAt < p.createdAt
    IN  SelectSeq(sorted, NotOlder) \o <<p>> \o SelectSeq(sorted, Older)

RECURSIVE SortByDateDesc(_)
SortByDateDesc(posts) ==
    IF posts = <<>> THEN <<>>
    ELSE InsertByDate(SortByDateDesc(SubSeq(posts, 1, Len(posts) - 1)),
                      posts[Len(posts)])

\* posts.find(p => p.id === id): the matching posts in array order; find
\* returns the first, or undefined when there is none.  NaN equals nothing.
FindById(posts, id) ==
    LET Matches(p) == id # NaN /\ p.id = id[1] IN SelectSeq(posts, Matches)

\* sortedPosts.findIndex(p => p.id === id), 0-based; the caller has found
\* a match already.
FindIndexById(sorted, id) ==
    (CHOOSE i \in 1..Len(sorted) :
        /\ sorted[i].id = id[1]
        /\ \A j \in 1..(i - 1) : sorted[j].id # id[1]) - 1


(***************************************************************************)
(* What each handler computes from the array readPosts() returned.         *)
(***************************************************************************)
limit == 6

EmptyObject == [k \in {} |-> <<>>]

NoResponse == [status |-> 0]

\* The document as JSON.stringify writes it and JSON.parse reads it back.
Document(posts) == [exists |-> TRUE, posts |-> posts]

\* parseInt(req.query.page) || 1: NaN and 0 are falsy.
PageOf(query) ==
    LET parsed == ParseIntOf(query, "page")
    IN  IF parsed = NaN \/ parsed[1] = 0 THEN 1 ELSE parsed[1]

\* The required-field check of POST /add-post.
MissingField(body) ==
    Falsy(body, "title") \/ Falsy(body, "content") \/ Falsy(body, "author")

\* Mutant of NextId: one more than the first post's identifier.
NextIdFromFirst(posts) == IF Len(posts) > 0 THEN posts[1].id + 1 ELSE 1

\* Mutant of NextId: the maximum itself, not one more.
NextIdNoIncrement(posts) == IF Len(posts) > 0 THEN MaxId(posts) ELSE 1

\* The identifier POST /add-post gives the new post.
NextId(posts) == IF Len(posts) > 0 THEN MaxId(posts) + 1 ELSE 1

\* The post POST /add-post builds, with the clock reading `now`.
NewPost(posts, body, now) ==
    [id |-> NextId(posts),
     title |-> sanitizeHtml(body["title"]),
     content |-> body["content"],
     author |-> sanitizeHtml(body["author"]),
     createdAt |-> now]

\* GET /
HomeResponse(posts) ==
    [status |-> 200, view |-> "home",
     featuredPosts |-> slice(SortByDateDesc(posts), 0, 3)]

\* Mutant of PostsResponse: the offset is page * limit, one page too far.
PostsResponseOffByOne(posts, query) ==
    LET page == PageOf(query)
        sortedPosts == SortByDateDesc(posts)
        offset == page * limit
    IN  [status |-> 200, view |-> "posts",
         posts |-> slice(sortedPosts, offset, offset + limit),
         currentPage |-> page,
         totalPages |-> Ceil(Len(sortedPosts), limit)]

\* GET /posts
PostsResponse(posts, query) ==
    LET page == PageOf(query)
        sortedPosts == SortByDateDesc(posts)
        totalPosts == Len(sortedPosts)
        offset == (page - 1) * limit
    IN  [status |-> 200, view |-> "posts",
         posts |-> slice(sortedPosts, offset, offset + limit),
         currentPage |-> page,
         totalPages |-> Ceil(totalPosts, limit)]

\* Mutant of PrevPost: the neighbour on the newer side.
PrevPostNewer(sortedPosts, currentIndex) ==
    IF currentIndex > 0 THEN <<sortedPosts[(currentIndex - 1) + 1]>> ELSE <<>>

\* The neighbours GET /post shows; null is the empty sequence, a post p is <<p>>.
PrevPost(sortedPosts, currentIndex) ==
    IF currentIndex < Len(sortedPosts) - 1
    THEN <<sortedPosts[(currentIndex + 1) + 1]>> ELSE <<>>

NextPost(sortedPosts, currentIndex) ==
    IF currentIndex > 0 THEN <<sortedPosts[(currentIndex - 1) + 1]>> ELSE <<>>

\* GET /post.  The rendered HTML of the content (processedContent) is set on
\* the in-memory post only and is left out.
PostResponse(posts, query) ==
    LET id == ParseIntOf(query, "id")
        found == FindById(posts, id)
    IN  IF found = <<>> THEN [status |-> 404, view |-> "error"]
        ELSE LET sortedPosts == SortByDateDesc(posts)
                 currentIndex == FindIndexById(sortedPosts, id)
             IN  [status |-> 200, view |-> "post",
                  post |-> found[1],
                  prevPost |-> PrevPost(sortedPosts, currentIndex),
                  nextPost |-> NextPost(sortedPosts, currentIndex)]

\* (req.query.q || '').toLowerCase()
SearchTerm(query) == toLowerCase(OrEmpty(query, "q"))

\* Mutant of MatchesTerm: the fields are compared as stored, not lowered.
MatchesTermAsStored(post, term) ==
    \/ includes(post.title, term)
    \/ includes(post.content, term)
    \/ includes(post.author, term)

\* The filter of GET /search.
MatchesTerm(post, term) ==
    \/ includes(toLowerCase(post.title), term)
    \/ includes(toLowerCase(post.content), term)
    \/ includes(toLowerCase(post.author), term)

\* GET /search with a non-empty term.
SearchResponse(posts, query) ==
    LET term == SearchTerm(query)
        Hit(post) == MatchesTerm(post, term)
    IN  [status |-> 200, view |-> "search",
         query |-> query["q"],
         posts |-> SortByDateDesc(SelectSeq(posts, Hit))]

\* The response of a read-only route once readPosts() has returned `posts`.
ReadResponse(route, posts, query) ==
    CASE route = "home" -> HomeResponse(posts)
      [] route = "posts" -> PostsResponse(posts, query)
      [] route = "post" -> PostResponse(posts, query)
      [] route = "search" -> SearchResponse(posts, query)


(***************************************************************************)
(* The store.                                                              *)
(***************************************************************************)
\* What readPosts() writes when the document is absent: { posts: [] }.
initialData == <<>>

\* Mutant of writePosts: the new post is appended to the document as it is
\* now, instead of the document being replaced by the handler's array.
writePostsAppending(posts) ==
    [exists |-> TRUE, posts |-> Append(file.posts, posts[Len(posts)])]

\* writePosts({ posts }): the whole document is replaced.
writePosts(posts) == Document(posts)

(***************************************************************************)
(* Requests.  A client has one request in flight at a time; pc is          *)
(*   "idle"    no request yet                                              *)
(*   "enoent"  readPosts() found no document and awaits mkdir/writeFile    *)
(*   "write"   POST /add-post awaits writePosts                            *)
(*   "done"    the response has been sent                                  *)
(***************************************************************************)
Ready(c) == pc[c] \in {"idle", "done"}

Finish(c, response) ==
    /\ pc' = [pc EXCEPT ![c] = "done"]
    /\ resp' = [resp EXCEPT ![c] = response]

\* POST /add-post up to the end of `await readPosts()`'s readFile: the
\* required-field check, then the read of the document and, when it is
\* there, the new post pushed on the local array.
AddPost(c, body, now) ==
    /\ Ready(c)
    /\ started < MaxCreates
    /\ started' = started + 1
    /\ kind' = [kind EXCEPT ![c] = "add"]
    /\ arg' = [arg EXCEPT ![c] = body]
    /\ IF MissingField(body)
       THEN /\ Finish(c, [status |-> 400, view |-> "error"])
            /\ local' = [local EXCEPT ![c] = <<>>]
       ELSE /\ resp' = [resp EXCEPT ![c] = NoResponse]
            /\ IF file.exists
               THEN /\ local' = [local EXCEPT ![c] =
                          Append(file.posts, NewPost(file.posts, body, now))]
                    /\ pc' = [pc EXCEPT ![c] = "write"]
               ELSE /\ local' = [local EXCEPT ![c] = <<>>]
                    /\ pc' = [pc EXCEPT ![c] = "enoent"]
    /\ UNCHANGED file

\* A read-only route up to the end of readPosts()'s readFile.  GET /search
\* with an empty term redirects before readPosts() is called.
Read(c, route, query) ==
    /\ Ready(c)
    /\ kind' = [kind EXCEPT ![c] = route]
    /\ arg' = [arg EXCEPT ![c] = query]
    /\ local' = [local EXCEPT ![c] = <<>>]
    /\ IF route = "search" /\ SearchTerm(query) = <<>>
       THEN Finish(c, [status |-> 302, location |-> "/"])
       ELSE IF file.exists
            THEN Finish(c, ReadResponse(route, file.posts, query))
            ELSE /\ pc' = [pc EXCEPT ![c] = "enoent"]
                 /\ resp' = [resp EXCEPT ![c] = NoResponse]
    /\ UNCHANGED <<file, started>>

GetHome(c) == Read(c, "home", EmptyObject)

GetPosts(c, query) == Read(c, "posts", query)

GetPost(c, query) == Read(c, "post", query)

GetSearch(c, query) == Read(c, "search", query)

\* The ENOENT branch of readPosts(): the empty collection is written over
\* whatever the document holds by now and returned; the handler goes on
\* with it.
CreateStore(c, now) ==
    /\ pc[c] = "enoent"
    /\ file' = Document(initialData)
    /\ IF kind[c] = "add"
       THEN /\ local' = [local EXCEPT ![c] =
                  Append(initialData, NewPost(initialData, arg[c], now))]
            /\ pc' = [pc EXCEPT ![c] = "write"]
            /\ UNCHANGED resp
       ELSE /\ Finish(c, ReadResponse(kind[c], initialData, arg[c]))
            /\ UNCHANGED local
    /\ UNCHANGED <<kind, arg, started>>

\* The end of POST /add-post: writePosts, then the redirect to the new post.
WritePosts(c) ==
    /\ pc[c] = "write"
    /\ file' = writePosts(local[c])
    /\ Finish(c, [status |-> 302, location |-> local[c][Len(local[c])].id])
    /\ UNCHANGED <<kind, arg, local, started>>

(***************************************************************************)
(* Spec: concurrent requests against a store that starts absent.           *)
(***************************************************************************)
NoStore == [exists |-> FALSE, posts |-> <<>>]

IdleClients ==
    /\ pc = [c \in Clients |-> "idle"]
    /\ kind = [c \in Clients |-> "none"]
    /\ arg = [c \in Clients |-> EmptyObject]
    /\ local = [c \in Clients |-> <<>>]
    /\ resp = [c \in Clients |-> NoResponse]
    /\ started = 0

Init ==
    /\ file = NoStore
    /\ IdleClients

\* Request bodies: a complete body, and the same body with one required
\* field empty or absent.
CompleteBodies ==
    {[title |-> t, content |-> <<"a">>, author |-> <<"B">>] :
        t \in {<<"a">>, <<"<x>">>}}

Without(body, k) == [j \in DOMAIN body \ {k} |-> body[j]]

IncompleteBodies ==
    LET base == [title |-> <<"a">>, content |-> <<"a">>, author |-> <<"B">>]
    IN  {[base EXCEPT ![k] = <<>>] : k \in DOMAIN base}
            \cup {Without(base, k) : k \in DOMAIN base}

Bodies == CompleteBodies \cup IncompleteBodies

ClockReadings == 1..MaxClock

PageQueries == Objects({"page"}, {<<"-", "1">>})

IdQueries == Objects({"id"}, {<<"1">>})

TermQueries == Objects({"q"}, {<<"a">>})

Next ==
    \/ \E c \in Creators, body \in Bodies, now \in ClockReadings :
            AddPost(c, body, now)
    \/ \E c \in Clients, now \in ClockReadings : CreateStore(c, now)
    \/ \E c \in Creators : WritePosts(c)
    \/ \E c \in Readers : GetHome(c)
    \/ \E c \in Readers, query \in PageQueries : GetPosts(c, query)
    \/ \E c \in Readers, query \in IdQueries : GetPost(c, query)
    \/ \E c \in Readers, query \in TermQueries : GetSearch(c, query)

Spec == Init /\ [][Next]_vars


(***************************************************************************)
(* SpecList: the read-only routes against a stored collection.  A stored   *)
(* collection is what successive creations leave: identifiers 1..n in      *)
(* array order, each post stamped with the clock reading of its creation   *)
(* (the wall clock may be set back between two creations).                 *)
(***************************************************************************)
StoredPost(id, title, content, author, createdAt) ==
    [id |-> id, title |-> title, content |-> content, author |-> author,
     createdAt |-> createdAt]

Times == 1..MaxTime

ListCollections ==
    UNION {{[i \in 1..n |-> StoredPost(i, <<"a">>, <<"a">>, <<"B">>, stamp[i])] :
                stamp \in [1..n -> Times]} : n \in 0..MaxListPosts}

ParamChars == {"-", "0", "1", "2", "a"}

PageStrings == StringsOver(ParamChars, MaxPageLen)

IdStrings == StringsOver(ParamChars, MaxIdLen)

InitList ==
    /\ file \in {NoStore} \cup {Document(posts) : posts \in ListCollections}
    /\ IdleClients

\* One request in a behaviour: a read-only request leaves the collection as
\* it is, so a second request would meet one of the initial states again.
NextList ==
    \/ \E c \in Readers : pc[c] = "idle" /\ GetHome(c)
    \/ \E c \in Readers, query \in Objects({"page"}, PageStrings) :
            pc[c] = "idle" /\ GetPosts(c, query)
    \/ \E c \in Readers, query \in Objects({"id"}, IdStrings) :
            pc[c] = "idle" /\ GetPost(c, query)
    \/ \E c \in Readers, now \in Times : CreateStore(c, now)

SpecList == InitList /\ [][NextList]_vars

(***************************************************************************)
(* SpecSearch: GET /search against a stored collection.                    *)
(***************************************************************************)
StoredWords == {<<"a">>, <<"b", "B">>}

SearchCollections ==
    UNION {[1..n -> {StoredPost(0, t, b, a, stamp) :
                        t \in StoredWords, b \in StoredWords,
                        a \in StoredWords, stamp \in Times}] :
           n \in 0..MaxSearchPosts}

\* The identifiers creation assigns: 1..n in array order.
Numbered(posts) == [i \in 1..Len(posts) |-> [posts[i] EXCEPT !.id = i]]

TermChars == {"a", "b", "B"}

TermStrings == StringsOver(TermChars, MaxQueryLen)

InitSearch ==
    /\ file \in {NoStore} \cup {Document(Numbered(posts)) : posts \in SearchCollections}
    /\ IdleClients

NextSearch ==
    \/ \E c \in Readers, query \in Objects({"q"}, TermStrings) :
            pc[c] = "idle" /\ GetSearch(c, query)
    \/ \E c \in Readers, now \in Times : CreateStore(c, now)

SpecSearch == InitSearch /\ [][NextSearch]_vars


(***************************************************************************)
(* Vocabulary of the properties, stated without the handlers' operators.   *)
(***************************************************************************)
RequiredFields == {"title", "content", "author"}

ReadRoutes == {"home", "posts", "post", "search"}

\* A required field of the body is empty or absent.
Incomplete(body) ==
    \E k \in RequiredFields : k \notin DOMAIN body \/ Len(body[k]) = 0

\* The step is one of client c's own steps (a client's request state is
\* changed by its own steps only).
StepOf(c) ==
    <<pc[c], kind[c], arg[c], local[c], resp[c]>> #
        <<pc'[c], kind'[c], arg'[c], local'[c], resp'[c]>>

\* The step is client c's writePosts.
WriteStepOf(c) == pc[c] = "write" /\ pc'[c] = "done"

Elements(seq) == {seq[i] : i \in 1..Len(seq)}

AnsweredRedirect(c) ==
    pc[c] = "done" /\ kind[c] = "add" /\ resp[c].status = 302

\* C1: a POST /add-post with all fields given, whose write finds the
\* document as its read left it (collection C), leaves C with exactly one
\* post appended; the post carries the identifier max(C) + 1, or 1 when C
\* is empty.
CreationAppendsOne ==
    [][\A c \in Creators :
          (WriteStepOf(c) /\ file = Document(SubSeq(local[c], 1, Len(local[c]) - 1)))
          => LET C == file.posts
                 after == file'.posts
                 new == after[Len(after)]
             IN  /\ file'.exists
                 /\ Len(after) = Len(C) + 1
                 /\ SubSeq(after, 1, Len(C)) = C
                 /\ new.content = arg[c]["content"]
                 /\ IF Len(C) = 0 THEN new.id = 1
                    ELSE /\ \E i \in 1..Len(C) : new.id = C[i].id + 1
                         /\ \A i \in 1..Len(C) : new.id > C[i].id
                 /\ resp'[c] = [status |-> 302, location |-> new.id]]_vars

\* C1 witness: a creation has just completed on a collection of two posts.
CreationAppendsOneWitness ==
    \E c \in Creators :
        /\ AnsweredRedirect(c)
        /\ file.exists /\ file.posts = local[c]
        /\ Len(file.posts) = 3
        /\ resp[c].location = 3

\* C2: no two posts of the persisted collection share an identifier.
UniqueIdentifiers ==
    file.exists =>
        \A i, j \in 1..Len(file.posts) :
            i # j => file.posts[i].id # file.posts[j].id

\* C2 witness: two creations raced on a one-post collection (both were
\* given identifier 2) and the collection holds two posts.
UniqueIdentifiersWitness ==
    /\ file.exists /\ Len(file.posts) = 2
    /\ \A c \in Creators : AnsweredRedirect(c) /\ resp[c].location = 2

\* C3: when a creation writes after a concurrent creation that read the
\* same collection has written and been answered with a redirect, it is
\* answered with a redirect too and its write replaces the other's: the
\* collection keeps its size and, unless the two posts are the same record,
\* no longer holds the other submission.
LastWriteWins ==
    [][\A c, d \in Creators :
          (/\ c # d
           /\ WriteStepOf(c)
           /\ AnsweredRedirect(d)
           /\ file = Document(local[d])
           /\ Len(local[c]) = Len(local[d]))
          => /\ resp'[c].status = 302
             /\ resp'[d].status = 302
             /\ Len(file'.posts) = Len(file.posts)
             /\ file'.posts[Len(file'.posts)] = local[c][Len(local[c])]
             /\ (local[c][Len(local[c])] # local[d][Len(local[d])]
                    => local[d][Len(local[d])] \notin Elements(file'.posts))]_vars

\* C3 witness: both creations were answered with a redirect to the same
\* identifier and the collection holds one of the two posts only.
LastWriteWinsWitness ==
    \E c, d \in Creators :
        /\ c # d
        /\ AnsweredRedirect(c) /\ AnsweredRedirect(d)
        /\ resp[c].location = resp[d].location
        /\ file.exists /\ file.posts = local[c]
        /\ local[d][Len(local[d])] \notin Elements(file.posts)

\* C8: a POST /add-post whose title, content or author is empty or absent
\* is answered 400 at once and leaves the document as it was.
IncompleteRejected ==
    [][\A c \in Creators :
          (/\ started' = started + 1
           /\ \A d \in Clients \ {c} : ~StepOf(d)
           /\ kind'[c] = "add"
           /\ Incomplete(arg'[c]))
          => /\ pc'[c] = "done"
             /\ resp'[c].status = 400
             /\ file' = file]_vars

\* C8 witness: a creation without author was rejected while the collection
\* holds a post.
IncompleteRejectedWitness ==
    \E c \in Creators :
        /\ pc[c] = "done" /\ kind[c] = "add"
        /\ "author" \notin DOMAIN arg[c]
        /\ resp[c].status = 400
        /\ file.exists /\ Len(file.posts) = 1

\* C9: every post of the persisted collection has a non-empty title, a
\* non-empty content and a non-empty author.
StoredFieldsNonEmpty ==
    file.exists =>
        \A i \in 1..Len(file.posts) :
            /\ file.posts[i].title # <<>>
            /\ file.posts[i].content # <<>>
            /\ file.posts[i].author # <<>>

\* C10: no step of a read-only request removes or alters a post of the
\* persisted collection.
ReadOnlyKeepsPosts ==
    [][\A c \in Clients :
          (kind'[c] \in ReadRoutes /\ StepOf(c))
          => Elements(file.posts) \subseteq Elements(file'.posts)]_vars


(***************************************************************************)
(* The date-descending ordering, stated by rank: a post comes after every  *)
(* newer post and after the posts of its own timestamp that precede it in  *)
(* the stored array.                                                       *)
(***************************************************************************)
Rank(all, i) ==
    Cardinality({j \in 1..Len(all) : all[j].createdAt > all[i].createdAt})
        + Cardinality({j \in 1..(i - 1) : all[j].createdAt = all[i].createdAt})

DateDescending(all) ==
    [r \in 1..Len(all) |-> all[CHOOSE i \in 1..Len(all) : Rank(all, i) = r - 1]]

\* The decimal numeral of n >= 0.
RECURSIVE Numeral(_)
Numeral(n) ==
    IF n < 10 THEN <<DecimalDigits[n + 1]>>
    ELSE Numeral(n \div 10) \o <<DecimalDigits[(n % 10) + 1]>>

\* s is a decimal numeral, with or without a minus sign.
IsNumeral(s) ==
    LET digits == IF s # <<>> /\ Head(s) = "-" THEN Tail(s) ELSE s
    IN  digits # <<>> /\ \A i \in 1..Len(digits) : IsDigit(digits[i])

NumeralValue(s) ==
    IF Head(s) = "-" THEN -DigitsValue(Tail(s)) ELSE DigitsValue(s)

\* The number of pages of n posts: the least k with k * limit >= n.
PageCount(n) == CHOOSE k \in 0..n : k * limit >= n /\ (k = 0 \/ (k - 1) * limit < n)

\* The items GET /posts?page=p returns for the collection.
PageItems(all, p) == PostsResponse(all, [page |-> Numeral(p)]).posts

RECURSIVE ConcatPages(_, _)
ConcatPages(all, lastPage) ==
    IF lastPage = 0 THEN <<>>
    ELSE ConcatPages(all, lastPage - 1) \o PageItems(all, lastPage)

Answered(c, route) == pc[c] = "done" /\ kind[c] = route

\* C4: for the collection as stored, the pages 1..totalPages of GET /posts,
\* concatenated, are the whole collection in date-descending order, no post
\* twice, and a page beyond totalPages has no items; a finished request for
\* page p >= 1 was answered 200 with the p-th block of six of that order
\* (none beyond totalPages) and totalPages = ceil(count / 6).
PagesPartition ==
    file.exists =>
        LET all == file.posts
            ordered == DateDescending(all)
            pages == PageCount(Len(all))
        IN  /\ (\A c \in Clients : pc[c] = "idle") =>
                   /\ ConcatPages(all, pages) = ordered
                   /\ \A i \in 1..(Len(ordered) - 1) :
                          ordered[i].createdAt >= ordered[i + 1].createdAt
                   /\ Elements(ordered) = Elements(all)
                   /\ \A p \in (pages + 1)..(pages + 2) : PageItems(all, p) = <<>>
            /\ \A c \in Readers :
                   (/\ Answered(c, "posts")
                    /\ "page" \in DOMAIN arg[c]
                    /\ IsNumeral(arg[c]["page"])
                    /\ NumeralValue(arg[c]["page"]) >= 1)
                   => LET p == NumeralValue(arg[c]["page"])
                          first == (p - 1) * limit + 1
                          last == IF p * limit < Len(all) THEN p * limit ELSE Len(all)
                      IN  /\ resp[c].status = 200
                          /\ resp[c].currentPage = p
                          /\ resp[c].totalPages = pages
                          /\ resp[c].posts = SubSeq(ordered, first, last)
                          /\ (p > pages => resp[c].posts = <<>>)

\* C4 witness: page 2 of 2 was answered with the oldest post of a
\* collection whose array order is not its date order.
PagesPartitionWitness ==
    \E c \in Readers :
        /\ Answered(c, "posts")
        /\ arg[c] = [page |-> <<"2">>]
        /\ resp[c].totalPages = 2
        /\ Len(resp[c].posts) = 1
        /\ resp[c].posts[1] # file.posts[Len(file.posts)]
        /\ resp[c].posts[1] # file.posts[1]

\* C5: a requested page below 1, or one no number can be read from, is
\* answered as page 1: currentPage = 1 and the first six posts of the
\* date-descending order.
PageBelowOneIsPageOne ==
    \A c \in Readers :
        (/\ Answered(c, "posts")
         /\ file.exists
         /\ \/ "page" \notin DOMAIN arg[c]
            \/ parseInt(arg[c]["page"]) = NaN
            \/ IsNumeral(arg[c]["page"]) /\ NumeralValue(arg[c]["page"]) < 1)
        => /\ resp[c].currentPage = 1
           /\ resp[c].posts =
                  SubSeq(DateDescending(file.posts), 1,
                         IF Len(file.posts) < limit THEN Len(file.posts) ELSE limit)

\* C6: GET /post for an identifier of the collection answers with that
\* post, with previous = the post one position further down the
\* date-descending order (null at the last position) and next = the post one
\* position further up (null at position 0); for an identifier that is not
\* in the collection it answers 404.
NeighboursByDate ==
    \A c \in Readers :
        (/\ Answered(c, "post")
         /\ "id" \in DOMAIN arg[c]
         /\ IsNumeral(arg[c]["id"]))
        => LET all == file.posts
               id == NumeralValue(arg[c]["id"])
               ordered == DateDescending(all)
           IN  IF \E i \in 1..Len(all) : all[i].id = id
               THEN LET i == CHOOSE i \in 1..Len(all) : all[i].id = id
                        k == Rank(all, i)
                    IN  /\ resp[c].status = 200
                        /\ resp[c].post = all[i]
                        /\ resp[c].post = ordered[k + 1]
                        /\ resp[c].prevPost =
                               IF k = Len(all) - 1 THEN <<>> ELSE <<ordered[k + 2]>>
                        /\ resp[c].nextPost =
                               IF k = 0 THEN <<>> ELSE <<ordered[k]>>
               ELSE resp[c].status = 404

\* C6 witness: the post asked for has both neighbours, and they are not
\* its neighbours in the stored array.
NeighboursByDateWitness ==
    \E c \in Readers :
        /\ Answered(c, "post")
        /\ arg[c] = [id |-> <<"2">>]
        /\ resp[c].status = 200
        /\ resp[c].prevPost # <<>> /\ resp[c].nextPost # <<>>
        /\ resp[c].prevPost[1].id > 3 /\ resp[c].nextPost[1].id > 3


\* Two characters that are the same letter, whatever their case.
SameLetter(x, y) ==
    x = y \/ {x, y} = {"a", "A"} \/ {x, y} = {"b", "B"}

\* q occurs in s as a substring, case ignored.
ContainsIgnoringCase(s, q) ==
    \E offset \in 0..(Len(s) - Len(q)) :
        \A i \in 1..Len(q) : SameLetter(s[offset + i], q[i])

TermOccurs(post, q) ==
    \/ ContainsIgnoringCase(post.title, q)
    \/ ContainsIgnoringCase(post.content, q)
    \/ ContainsIgnoringCase(post.author, q)

\* C7: GET /search with an empty or missing term is answered with a
\* redirect to "/" and never waits for the store; with a non-empty term it
\* is answered with the posts in which the term occurs, case ignored, in
\* title, content or author, all of them and no other, in date-descending
\* order.
SearchFindsExactly ==
    \A c \in Readers :
        kind[c] = "search" =>
            LET q == IF "q" \in DOMAIN arg[c] THEN arg[c]["q"] ELSE <<>>
                Occurs(post) == TermOccurs(post, q)
            IN  IF Len(q) = 0
                THEN /\ pc[c] = "done"
                     /\ resp[c] = [status |-> 302, location |-> "/"]
                ELSE pc[c] = "done" =>
                        /\ resp[c].status = 200
                        /\ resp[c].posts =
                               SelectSeq(DateDescending(file.posts), Occurs)

\* C7 witness: of two posts the search returned just the one that holds
\* the term, in its author only and in another case.
SearchFindsExactlyWitness ==
    \E c \in Readers :
        /\ Answered(c, "search")
        /\ arg[c] = [q |-> <<"B", "b">>]
        /\ Len(file.posts) = 2
        /\ Len(resp[c].posts) = 1
        /\ resp[c].posts[1].author = <<"b", "B">>
        /\ resp[c].posts[1].title = <<"a">>
        /\ resp[c].posts[1].content = <<"a">>

=============================================================================
